---- MODULE Spec2Model ----
(***************************************************************************)
(* Model of src/src/App.tsx: the interval / lap timer component.           *)
(*                                                                         *)
(* The component is a React function component.  Its canonical state is    *)
(* the useState cells and the useRef cells; its displayed values are       *)
(* useMemo results, which React recomputes only in a render in which one   *)
(* of the listed dependencies changed.  Event handlers are closures of the *)
(* render that created them: a button always carries the handler of the    *)
(* latest render, the keydown listener carries the handlers of the render  *)
(* in which the keyboard effect last ran.  A state updater passed to a     *)
(* setter after another setter has already queued an update runs in the    *)
(* next render, i.e. after the handler body has finished.                  *)
(*                                                                         *)
(* Every action below is one event: the handler body, the render it        *)
(* causes and the effects of that render.                                  *)
(***************************************************************************)
EXTENDS Integers, Sequences, FiniteSets, TLC

\* ------------------------------------------------------------------ bounds
MaxTime == 3      \* the clock reads 0..MaxTime
MaxLaps == 1      \* laps cut per page session are capped in the guard
MaxTarget == 0    \* target-minutes inputs range over 0..MaxTarget
MaxMinutes == 2   \* calls of the pure functions: targets and durations up to
                  \* MaxMinutes minutes
MaxRows == 2      \* calls of buildTextSummary: lap lists of up to MaxRows rows

\* ------------------------------------------------- encodings of JS values
\* Timestamps, durations and targets of the model are naturals; the three
\* non-number values a cell or a JSON field can hold are encoded below 0.
Null == 0 - 1        \* JS null (useRef<number | null>(null))
Undefined == 0 - 2   \* JS undefined (an omitted JSON property reads as undefined)
NaN == 0 - 3         \* valueAsNumber of an input that holds no number
Text == 0 - 4        \* a JS string that is not the text of a number

MAX_RELOADS == 2

Max(a, b) == IF a >= b THEN a ELSE b
Min(a, b) == IF a <= b THEN a ELSE b

\* typeof x === "number"
IsNumber(x) == x >= 0
\* x != null && !Number.isNaN(x)
NotNullish(x) == x # Null /\ x # Undefined /\ x # NaN
\* a ?? b
Coalesce(a, b) == IF a = Null \/ a = Undefined THEN b ELSE a

RECURSIVE SeqMax(_)
SeqMax(s) == IF Len(s) = 1 THEN s[1] ELSE Max(s[1], SeqMax(Tail(s)))
RECURSIVE SeqMin(_)
SeqMin(s) == IF Len(s) = 1 THEN s[1] ELSE Min(s[1], SeqMin(Tail(s)))

\* laps.reduce((acc, l) => acc + (l.durationMs || 0), 0)
RECURSIVE lapsAccumulatedMs(_)
lapsAccumulatedMs(ls) ==
  IF Len(ls) = 0 THEN 0
  ELSE (IF IsNumber(ls[1].durationMs) THEN ls[1].durationMs ELSE 0)
       + lapsAccumulatedMs(Tail(ls))

\* --------------------------------------------------------------- the state
VARIABLES
  app,      \* useState cells, useRef cells and useMemo results of App
  store,    \* localStorage: the four keys the component reads or writes
  kb,       \* the closure values held by the registered keydown listener
  now,      \* the reading Date.now() returns
  mounted,  \* TRUE while the component is mounted: FALSE before the page's
            \* mount effects have run and after a render has thrown
  last,     \* history: the kind of the last event
  runTime,  \* history: clock time spent running since the last reset / load
  calc      \* a call of one of the module-level functions: arguments, result

vars == <<app, store, kb, now, mounted, last, runTime, calc>>

\* The cells as the useState / useRef initialisers leave them, and the memo
\* values of the first render.
FreshApp ==
  [ isRunning |-> FALSE, baseElapsed |-> 0, startedAt |-> Null, laps |-> <<>>,
    sessionStartTs |-> Null, lapAnchorTs |-> Null, activeStartTs |-> Null,
    lastPauseTs |-> Null, activeTargetMinutes |-> Undefined,
    currentTargetMinutes |-> Undefined,
    prevElapsed |-> 0, prevRangeDur |-> 0, reloadsLeft |-> MAX_RELOADS,
    rawElapsed |-> 0, elapsed |-> 0, rangeEnd |-> Null,
    displayRangeDuration |-> 0 ]

\* ------------------------------------------------------------ localStorage
NoItem == [kind |-> "none"]          \* getItem returns null
Corrupt == [kind |-> "corrupt"]      \* a string JSON.parse throws on
Json(v) == [kind |-> "json", v |-> v]

\* The object the persist effect serialises.  laps, baseElapsed and
\* currentTargetMinutes are the rendered state, the others are read from the
\* refs when the effect runs.
Payload(s) ==
  [ laps |-> s.laps, baseElapsed |-> s.baseElapsed,
    sessionStartTs |-> s.sessionStartTs, lapAnchorTs |-> s.lapAnchorTs,
    activeStartTs |-> s.activeStartTs,
    activeTargetMinutes |-> s.activeTargetMinutes,
    lastPauseTs |-> s.lastPauseTs,
    currentTargetMinutes |-> s.currentTargetMinutes ]

\* A JSON text is modelled by the value JSON.parse reads from it: an object
\* is a function from the property names the text holds to their values, an
\* array is a sequence, null as an array element is JsonNull.
JsonNull == [isNull |-> TRUE]

\* JSON.stringify of a number, null or a string: NaN is written as null.
JsonValue(x) == IF x = NaN THEN Null ELSE x

\* Mutant of stringifyObject: a property whose value is 0 is left out as well.
stringifyObject_dropsZero(o) ==
  [f \in {g \in DOMAIN o : o[g] # Undefined /\ o[g] # 0} |-> JsonValue(o[f])]

\* JSON.stringify of an object with scalar properties: a property whose value
\* is undefined is left out.
stringifyObject(o) ==
  [f \in {g \in DOMAIN o : o[g] # Undefined} |-> JsonValue(o[f])]

\* JSON.stringify(payload) of the persist effect.
stringify(o) ==
  [f \in {g \in DOMAIN o : g = "laps" \/ o[g] # Undefined} |->
     IF f = "laps"
     THEN [i \in 1..Len(o.laps) |-> stringifyObject(o.laps[i])]
     ELSE JsonValue(o[f])]

\* parsed.f: a property the text does not hold reads as undefined.
Prop(p, f) == IF f \in DOMAIN p THEN p[f] ELSE Undefined

\* The lap objects of a parsed array as the component reads them.
parsedLaps(arr) ==
  [i \in 1..Len(arr) |->
     IF arr[i] = JsonNull THEN JsonNull
     ELSE [startTs |-> Prop(arr[i], "startTs"), endTs |-> Prop(arr[i], "endTs"),
           durationMs |-> Prop(arr[i], "durationMs"),
           targetMinutes |-> Prop(arr[i], "targetMinutes")]]

\* ------------------------------------------------------------------ render
\* useMemo rawElapsed, deps [isRunning, baseElapsed, tick]
rawElapsedMemo(s, t) ==
  IF s.isRunning /\ s.startedAt # Null
  THEN s.baseElapsed + (t - s.startedAt)
  ELSE s.baseElapsed

\* useMemo elapsed, deps [rawElapsed]: never below the last displayed value
elapsedMemo(prevElapsed, rawElapsed) == Max(prevElapsed, rawElapsed)

\* Mutant of rangeEndMemo: the end is the latest lap end, whatever the live
\* time.
rangeEndMemo_lapsOnly(s, t) ==
  IF s.sessionStartTs = Null THEN Null
  ELSE IF Len(s.laps) > 0
  THEN SeqMax([i \in 1..Len(s.laps) |-> s.laps[i].endTs])
  ELSE s.sessionStartTs

\* useMemo rangeEnd, deps [completedRows, isRunning, tick, rangeStart]
rangeEndMemo(s, t) ==
  IF s.sessionStartTs = Null THEN Null
  ELSE LET lapEnd == IF Len(s.laps) > 0
                     THEN SeqMax([i \in 1..Len(s.laps) |-> s.laps[i].endTs])
                     ELSE Null
           live == IF s.isRunning THEN t ELSE s.lastPauseTs
           end == IF live # Null
                  THEN (IF lapEnd # Null THEN Max(lapEnd, live) ELSE live)
                  ELSE lapEnd
       IN IF end = Null THEN s.sessionStartTs ELSE end

\* useMemo rangeDuration, deps [rangeStart, rangeEnd]; a function of its deps
rangeDuration(rangeStart, rangeEnd) ==
  IF rangeStart = Null \/ rangeEnd = Null THEN 0
  ELSE Max(0, rangeEnd - rangeStart)

\* useMemo activeRow: its durationMs is a function of two of its deps
\* (elapsed, lapsAccumulatedMs); null when no segment is open.
activeDurationMs(s) ==
  IF s.activeStartTs = Null THEN Null
  ELSE Max(0, s.elapsed - lapsAccumulatedMs(s.laps))

\* One render of App.  old: the component as the previous render left it,
\* s: the cells after the handler (memo fields still those of old),
\* ch.tick / ch.laps: whether setTick ran / setLaps stored a new array,
\* t: Date.now() during the render.
Render(old, s, ch, t) ==
  LET rawDeps == old.isRunning # s.isRunning \/ old.baseElapsed # s.baseElapsed
                 \/ ch.tick
      raw == IF rawDeps THEN rawElapsedMemo(s, t) ELSE old.rawElapsed
      elDeps == raw # old.rawElapsed
      el == IF elDeps THEN elapsedMemo(s.prevElapsed, raw) ELSE old.elapsed
      reDeps == ch.laps \/ old.isRunning # s.isRunning \/ ch.tick
                \/ old.sessionStartTs # s.sessionStartTs
      re == IF reDeps THEN rangeEndMemo(s, t) ELSE old.rangeEnd
      rdOld == rangeDuration(old.sessionStartTs, old.rangeEnd)
      rd == rangeDuration(s.sessionStartTs, re)
      drDeps == rd # rdOld
      dr == IF drDeps THEN Max(s.prevRangeDur, rd) ELSE old.displayRangeDuration
  IN [s EXCEPT !.rawElapsed = raw, !.elapsed = el,
               !.prevElapsed = IF elDeps THEN el ELSE s.prevElapsed,
               !.rangeEnd = re, !.displayRangeDuration = dr,
               !.prevRangeDur = IF drDeps THEN dr ELSE s.prevRangeDur]

\* ----------------------------------------------------------------- effects
\* Mutant of persistBody: the snapshot is written whatever the budget.
persistBody_ungated(s, st) == [st EXCEPT !.state = Json(stringify(Payload(s)))]

\* Persist effect, deps [laps, baseElapsed, currentTargetMinutes, reloadsLeft]
persistBody(s, st) ==
  IF s.reloadsLeft > 0
  THEN [st EXCEPT !.state = Json(stringify(Payload(s)))]
  ELSE [st EXCEPT !.state = NoItem]

\* Mutant of persistEffect: elapsed is among the deps.
persistEffect_onElapsed(old, s, ch, st) ==
  IF ch.laps \/ old.baseElapsed # s.baseElapsed
     \/ old.currentTargetMinutes # s.currentTargetMinutes
     \/ old.reloadsLeft # s.reloadsLeft
     \/ old.elapsed # s.elapsed
  THEN persistBody(s, st)
  ELSE st

persistEffect(old, s, ch, st) ==
  IF ch.laps \/ old.baseElapsed # s.baseElapsed
     \/ old.currentTargetMinutes # s.currentTargetMinutes
     \/ old.reloadsLeft # s.reloadsLeft
  THEN persistBody(s, st)
  ELSE st

\* Keyboard effect, deps [isRunning, lapsAccumulatedMs]: the listener is
\* replaced by one that closes over the handlers of this render, and so over
\* this render's elapsed and currentTargetMinutes.
Closure(s) == [elapsed |-> s.elapsed, currentTargetMinutes |-> s.currentTargetMinutes]

keyboardEffect(old, s, k) ==
  IF old.isRunning # s.isRunning
     \/ lapsAccumulatedMs(old.laps) # lapsAccumulatedMs(s.laps)
  THEN Closure(s)
  ELSE k

\* What follows a handler: nothing when no state cell changed, otherwise one
\* render and the effects whose deps changed.  r: [app, store, laps] as the
\* handler left them.
Commit(old, r, k, tick, t) ==
  LET s == r.app
      ch == [tick |-> tick, laps |-> r.laps]
      dirty == tick \/ r.laps \/ old.isRunning # s.isRunning
               \/ old.baseElapsed # s.baseElapsed
               \/ old.currentTargetMinutes # s.currentTargetMinutes
               \/ old.reloadsLeft # s.reloadsLeft
  IN IF ~dirty THEN [app |-> s, store |-> r.store, kb |-> k]
     ELSE LET n == Render(old, s, ch, t)
          IN [app |-> n, store |-> persistEffect(old, n, ch, r.store),
              kb |-> keyboardEffect(old, n, k)]

\* ---------------------------------------------------------------- handlers
\* A handler maps the cells s, the storage st, the closure cl of the render
\* that created it and the clock reading t to [app, store, laps], where laps
\* says whether setLaps stored a new array.
Result(s, st, lapsSet) == [app |-> s, store |-> st, laps |-> lapsSet]

handleStart(s, st, cl, t) ==
  IF s.isRunning THEN Result(s, st, FALSE)
  ELSE LET run == [s EXCEPT !.startedAt = t, !.isRunning = TRUE]
       IN IF s.sessionStartTs = Null
          THEN Result([run EXCEPT !.sessionStartTs = t, !.lapAnchorTs = t,
                                  !.activeStartTs = t,
                                  !.activeTargetMinutes = cl.currentTargetMinutes],
                      st, FALSE)
          ELSE Result([run EXCEPT !.activeStartTs =
                         IF s.activeStartTs = Null
                         THEN Coalesce(s.lapAnchorTs, Coalesce(s.sessionStartTs, t))
                         ELSE s.activeStartTs],
                      st, FALSE)

\* The updater handed to setBaseElapsed.  startedAtRefCurrent is the value of
\* startedAtRef.current when the updater runs.
pauseUpdater(v, startedAtRefCurrent, t, displayedElapsed) ==
  LET computed == v + (t - Coalesce(startedAtRefCurrent, t))
  IN Max(displayedElapsed, computed)

\* setIsRunning(false) queues an update first, so the updater of
\* setBaseElapsed is applied in the following render, after the handler has
\* cleared startedAtRef and set lastPauseTsRef.
handlePause(s, st, cl, t) ==
  IF ~s.isRunning THEN Result(s, st, FALSE)
  ELSE LET body == [s EXCEPT !.isRunning = FALSE, !.startedAt = Null,
                             !.lastPauseTs = t]
       IN Result([body EXCEPT !.baseElapsed =
                    pauseUpdater(s.baseElapsed, body.startedAt, t, cl.elapsed)],
                 st, FALSE)

resetReloadBudget(s, st) ==
  Result([s EXCEPT !.reloadsLeft = MAX_RELOADS],
         [st EXCEPT !.left = MAX_RELOADS], TRUE)

\* Mutant of handleReset: the isRunning guard is missing.
handleReset_unguarded(s, st) ==
  resetReloadBudget(
    [s EXCEPT !.isRunning = FALSE, !.baseElapsed = 0, !.startedAt = Null,
              !.laps = <<>>, !.sessionStartTs = Null, !.lapAnchorTs = Null,
              !.activeStartTs = Null, !.lastPauseTs = Null,
              !.activeTargetMinutes = Undefined,
              !.currentTargetMinutes = Undefined,
              !.prevElapsed = 0, !.prevRangeDur = 0],
    [st EXCEPT !.state = NoItem])

handleReset(s, st) ==
  IF s.isRunning THEN Result(s, st, FALSE)
  ELSE resetReloadBudget(
         [s EXCEPT !.isRunning = FALSE, !.baseElapsed = 0, !.startedAt = Null,
                   !.laps = <<>>, !.sessionStartTs = Null, !.lapAnchorTs = Null,
                   !.activeStartTs = Null, !.lastPauseTs = Null,
                   !.activeTargetMinutes = Undefined,
                   !.currentTargetMinutes = Undefined,
                   !.prevElapsed = 0, !.prevRangeDur = 0],
         [st EXCEPT !.state = NoItem])

\* const currentLapMs = Math.max(0, elapsed - lapsAccumulatedMs)
currentLapMs(displayedElapsed, accumulated) == Max(0, displayedElapsed - accumulated)

\* Mutant of handleLap: the new lap is put in front of the list.
handleLap_prepend(s, st, cl, t) ==
  IF ~s.isRunning THEN Result(s, st, FALSE)
  ELSE IF s.sessionStartTs = Null THEN Result(s, st, FALSE)
  ELSE LET newLap ==
             [ startTs |-> Coalesce(s.activeStartTs,
                             Coalesce(s.lapAnchorTs, Coalesce(s.sessionStartTs, t))),
               endTs |-> t,
               durationMs |-> currentLapMs(cl.elapsed, lapsAccumulatedMs(s.laps)),
               targetMinutes |-> s.activeTargetMinutes ]
       IN Result([s EXCEPT !.laps = <<newLap>> \o s.laps,
                           !.lapAnchorTs = t, !.activeStartTs = t,
                           !.activeTargetMinutes = cl.currentTargetMinutes],
                 st, TRUE)

handleLap(s, st, cl, t) ==
  IF ~s.isRunning THEN Result(s, st, FALSE)
  ELSE IF s.sessionStartTs = Null THEN Result(s, st, FALSE)
  ELSE LET newLap ==
             [ startTs |-> Coalesce(s.activeStartTs,
                             Coalesce(s.lapAnchorTs, Coalesce(s.sessionStartTs, t))),
               endTs |-> t,
               durationMs |-> currentLapMs(cl.elapsed, lapsAccumulatedMs(s.laps)),
               targetMinutes |-> s.activeTargetMinutes ]
       IN Result([s EXCEPT !.laps = Append(s.laps, newLap),
                           !.lapAnchorTs = t, !.activeStartTs = t,
                           !.activeTargetMinutes = cl.currentTargetMinutes],
                 st, TRUE)

\* Mutant of computePresetFromInput: a blank input gives the target 0.
computePresetFromInput_zero(in) ==
  IF in.blank THEN 0
  ELSE IF in.isNaN THEN Undefined
  ELSE Max(0, in.tenths \div 10)

\* The number input: blank says raw.trim() === "", isNaN says valueAsNumber
\* is undefined or NaN, tenths is valueAsNumber in tenths (59 is 5.9).
computePresetFromInput(in) ==
  IF in.blank THEN Undefined
  ELSE IF in.isNaN THEN Undefined
  ELSE Max(0, in.tenths \div 10)

handlePresetChange(s, st, in) ==
  Result([s EXCEPT !.currentTargetMinutes = computePresetFromInput(in)], st, FALSE)

\* window keydown listener: the handlers it calls are those of the render in
\* which the keyboard effect last ran (closure k); isRunning is one of the
\* effect's deps and therefore current.
onKey(s, st, k, key, t) ==
  IF key = " " THEN (IF s.isRunning THEN handlePause(s, st, k, t)
                     ELSE handleStart(s, st, k, t))
  ELSE IF key = "l" THEN (IF s.isRunning THEN handleLap(s, st, k, t)
                          ELSE Result(s, st, FALSE))
  ELSE (IF ~s.isRunning THEN handleReset(s, st) ELSE Result(s, st, FALSE))

\* ---------------------------------------------------------- restore effect
\* Number.isFinite(parseInt(leftRaw || "", 10)) ? parseInt(leftRaw, 10) : MAX_RELOADS
\* The stored item is absent (Null), a text that is no integer (NaN) or the
\* decimal text String(n) of an integer n, which parseInt reads back as n.
parseReloadsLeft(leftRaw) ==
  IF leftRaw = Null \/ leftRaw = NaN THEN MAX_RELOADS ELSE leftRaw

\* Mutant of consumeReload: a load does not use up the budget.
consumeReload_kept(left) == left

\* left = Math.max(0, left - 1)
consumeReload(left) == Max(0, left - 1)

\* Mutant of restoreV6: baseElapsed is not restored.
restoreV6_noBase(s, p) ==
  [s EXCEPT
     !.laps = IF "laps" \in DOMAIN p THEN parsedLaps(p.laps) ELSE @,
     !.sessionStartTs =
        IF IsNumber(Prop(p, "sessionStartTs")) THEN p.sessionStartTs ELSE @,
     !.lapAnchorTs = IF IsNumber(Prop(p, "lapAnchorTs")) THEN p.lapAnchorTs ELSE @,
     !.activeStartTs =
        IF IsNumber(Prop(p, "activeStartTs")) THEN p.activeStartTs ELSE @,
     !.lastPauseTs = IF IsNumber(Prop(p, "lastPauseTs")) THEN p.lastPauseTs ELSE @,
     !.activeTargetMinutes =
        IF NotNullish(Prop(p, "activeTargetMinutes")) THEN p.activeTargetMinutes ELSE @,
     !.currentTargetMinutes =
        IF NotNullish(Prop(p, "currentTargetMinutes")) THEN p.currentTargetMinutes ELSE @]

\* Current format.  Array.isArray(parsed.laps): the stored texts of the model
\* hold an array under laps or no laps property; the entries are taken over
\* as they are.  A timestamp or baseElapsed is taken over when it is a number,
\* a target when it is neither null, undefined nor NaN.
restoreV6(s, p) ==
  [s EXCEPT
     !.laps = IF "laps" \in DOMAIN p THEN parsedLaps(p.laps) ELSE @,
     !.baseElapsed = IF IsNumber(Prop(p, "baseElapsed")) THEN p.baseElapsed ELSE @,
     !.sessionStartTs =
        IF IsNumber(Prop(p, "sessionStartTs")) THEN p.sessionStartTs ELSE @,
     !.lapAnchorTs = IF IsNumber(Prop(p, "lapAnchorTs")) THEN p.lapAnchorTs ELSE @,
     !.activeStartTs =
        IF IsNumber(Prop(p, "activeStartTs")) THEN p.activeStartTs ELSE @,
     !.lastPauseTs = IF IsNumber(Prop(p, "lastPauseTs")) THEN p.lastPauseTs ELSE @,
     !.activeTargetMinutes =
        IF NotNullish(Prop(p, "activeTargetMinutes")) THEN p.activeTargetMinutes ELSE @,
     !.currentTargetMinutes =
        IF NotNullish(Prop(p, "currentTargetMinutes")) THEN p.currentTargetMinutes ELSE @]

\* v5: no activeStartTs / activeTargetMinutes; the anchors are derived.  The
\* v5 and v4 samples of the model list every property they read, an omitted
\* one as Undefined.
restoreV5(s, v5) ==
  LET sessionStart == IF IsNumber(v5.sessionStartTs) THEN v5.sessionStartTs ELSE Null
      lapAnchor == IF IsNumber(v5.lapAnchorTs) THEN v5.lapAnchorTs ELSE sessionStart
  IN [s EXCEPT
        !.laps = v5.laps,
        !.baseElapsed = IF IsNumber(v5.baseElapsed) THEN v5.baseElapsed ELSE @,
        !.sessionStartTs = sessionStart,
        !.lapAnchorTs = lapAnchor,
        !.activeStartTs = Coalesce(lapAnchor, sessionStart),
        !.lastPauseTs = IF IsNumber(v5.lastPauseTs) THEN v5.lastPauseTs ELSE Null,
        !.currentTargetMinutes =
           IF NotNullish(v5.currentTargetMinutes) THEN v5.currentTargetMinutes ELSE @]

\* v4: a flat list of segments with start / end.
migrateSegments(segments) ==
  LET ok == SelectSeq(segments, LAMBDA g : IsNumber(g.start) /\ IsNumber(g.end))
  IN [i \in 1..Len(ok) |->
        [startTs |-> ok[i].start, endTs |-> ok[i].end,
         durationMs |-> Max(0, ok[i].end - ok[i].start),
         targetMinutes |-> ok[i].targetMinutes]]

restoreV4(s, legacy) ==
  LET migrated == migrateSegments(legacy.segments)
      sessionStart == IF Len(migrated) > 0
                      THEN SeqMin([i \in 1..Len(migrated) |-> migrated[i].startTs])
                      ELSE Null
      lastEnd == IF Len(migrated) > 0
                 THEN SeqMax([i \in 1..Len(migrated) |-> migrated[i].endTs])
                 ELSE Null
      lapAnchor == Coalesce(lastEnd, sessionStart)
  IN [s EXCEPT
        !.laps = migrated,
        !.baseElapsed = IF IsNumber(legacy.baseElapsed) THEN legacy.baseElapsed ELSE 0,
        !.sessionStartTs = sessionStart,
        !.lapAnchorTs = lapAnchor,
        !.activeStartTs = Coalesce(lapAnchor, sessionStart),
        !.lastPauseTs = lastEnd]

\* The state read from storage when the budget is positive.  A v5 / v4 text
\* that does not parse is caught by the inner try and restores nothing.
restoreState(s, st) ==
  IF st.state.kind = "json" THEN Result(restoreV6(s, st.state.v), st, TRUE)
  ELSE IF st.v5.kind # "none"
  THEN (IF st.v5.kind = "json" THEN Result(restoreV5(s, st.v5.v), st, TRUE)
        ELSE Result(s, st, FALSE))
  ELSE IF st.v4.kind = "json" THEN Result(restoreV4(s, st.v4.v), st, TRUE)
  ELSE Result(s, st, FALSE)

\* The mount effect.  JSON.parse of the current-format item is not inside an
\* inner try: when it throws, the outer catch ends the effect after
\* setReloadsLeft(left), before the budget is consumed.
restoreEffect(s, st) ==
  LET left == parseReloadsLeft(st.left)
      s0 == [s EXCEPT !.reloadsLeft = left]
  IN IF left > 0
     THEN IF st.state.kind = "corrupt" THEN Result(s0, st, FALSE)
          ELSE LET r == restoreState(s0, st)
               IN Result([r.app EXCEPT !.reloadsLeft = consumeReload(left)],
                         [r.store EXCEPT !.left = consumeReload(left)], r.laps)
     ELSE Result(s0, [st EXCEPT !.state = NoItem], FALSE)

\* laps.reduce((acc, l) => acc + (l.durationMs || 0), 0) reads a property of
\* every entry: on an entry that is null the read throws a TypeError in the
\* render.
renderThrows(s) == \E i \in 1..Len(s.laps) : s.laps[i] = JsonNull

\* Page load: first render with the initial cells, then the mount effects in
\* source order (restore, persist, keyboard), then the render caused by the
\* restore effect's setters and its effects.  The persist effect of the first
\* render closes over the initial laps, baseElapsed, currentTargetMinutes and
\* reloadsLeft but reads the refs the restore effect has just written.  The
\* component has no error boundary: when the second render throws, React
\* unmounts it, which leaves no cells and no listener, only the storage as
\* the mount effects wrote it.
PageLoad(st, t) ==
  LET re == restoreEffect(FreshApp, st)
      first == [re.app EXCEPT !.laps = FreshApp.laps,
                              !.baseElapsed = FreshApp.baseElapsed,
                              !.currentTargetMinutes = FreshApp.currentTargetMinutes,
                              !.reloadsLeft = FreshApp.reloadsLeft]
      afterMount == Result(re.app, persistBody(first, re.store), re.laps)
  IN IF renderThrows(re.app)
     THEN [app |-> FreshApp, store |-> afterMount.store,
           kb |-> Closure(FreshApp), mounted |-> FALSE]
     ELSE LET c == Commit(FreshApp, afterMount, Closure(FreshApp), FALSE, t)
          IN [app |-> c.app, store |-> c.store, kb |-> c.kb, mounted |-> TRUE]

\* ------------------------------------------------------------ initial state
\* What localStorage may hold when the page is first opened: nothing, a
\* current-format text that does not parse, or the items an older version of
\* the program left (v5, v4).  Current-format snapshots and smaller budgets
\* are written by the program itself in the course of a behaviour.
LegacyLap == [startTs |-> 0, endTs |-> 0, durationMs |-> 1, targetMinutes |-> 0]

SampleV5 ==
  [ laps |-> <<LegacyLap>>, baseElapsed |-> 1, sessionStartTs |-> 0,
    lapAnchorTs |-> Null, lastPauseTs |-> 0, currentTargetMinutes |-> Undefined ]

SampleV4 ==
  [ segments |-> << [start |-> 0, end |-> 0, targetMinutes |-> Undefined],
                    [start |-> Null, end |-> 0, targetMinutes |-> 0] >>,
    baseElapsed |-> Undefined ]

Storage(left, state, v5, v4) == [left |-> left, state |-> state, v5 |-> v5, v4 |-> v4]

InitialStores ==
  { Storage(Null, NoItem, NoItem, NoItem),
    Storage(NaN, NoItem, NoItem, NoItem),
    Storage(MAX_RELOADS, Corrupt, NoItem, NoItem) }

LegacyStores ==
  { Storage(Null, NoItem, Json(SampleV5), Json(SampleV4)),
    Storage(Null, NoItem, Corrupt, Json(SampleV4)),
    Storage(Null, NoItem, NoItem, Json(SampleV4)) }

\* History value: the kind of an event, and for a page load the budget found.
Event(kind) == [ev |-> kind, left |-> Null]

\* No module-level function has been called on its own.
NoCall == [fn |-> "none"]

\* The component as constructed (useState / useRef initialisers), before its
\* mount effects have run, over the storage contents stores, the clock
\* reading t.
InitAt(stores, t) ==
  /\ app = FreshApp
  /\ store \in stores
  /\ kb = Closure(FreshApp)
  /\ now = t
  /\ mounted = FALSE
  /\ last = Event("init")
  /\ runTime = 0
  /\ calc = NoCall

InitOver(stores) == InitAt(stores, 0)

Init == InitOver(InitialStores)

InitLegacy == InitOver(LegacyStores)

\* ------------------------------------------------------------------ actions
Inputs ==
  { [blank |-> TRUE, isNaN |-> TRUE, tenths |-> 0],
    [blank |-> FALSE, isNaN |-> TRUE, tenths |-> 0] }
  \cup { [blank |-> FALSE, isNaN |-> FALSE, tenths |-> n] :
           n \in {0 - 5} \cup { 10 * k + 5 : k \in 0..MaxTarget } }

\* The outcome c of an event becomes the next state.
Becomes(c) == app' = c.app /\ store' = c.store /\ kb' = c.kb

\* History: a call the handler's guard rejected, or an event that was handled.
Outcome(rejected) == IF rejected THEN Event("ignored") ELSE Event("handled")

\* The page is opened or reloaded: every cell is re-created, storage stays.
Load ==
  /\ LET c == PageLoad(store, now)
     IN /\ Becomes(c)
        /\ mounted' = c.mounted
        /\ last' = [ev |-> IF c.mounted THEN "load" ELSE "crash",
                    left |-> parseReloadsLeft(store.left)]
  /\ runTime' = app'.elapsed
  /\ UNCHANGED <<now, calc>>

\* Time passes.
ClockAdvance ==
  /\ now < MaxTime
  /\ now' = now + 1
  /\ runTime' = IF mounted /\ app.isRunning THEN runTime + 1 ELSE runTime
  /\ UNCHANGED <<app, store, kb, mounted, last, calc>>

\* The 50 ms interval, which exists only while isRunning: setTick.
Tick ==
  /\ mounted /\ app.isRunning
  /\ Becomes(Commit(app, Result(app, store, FALSE), kb, TRUE, now))
  /\ last' = Event("handled")
  /\ UNCHANGED <<now, mounted, runTime, calc>>

ClickStart ==
  /\ mounted
  /\ Becomes(Commit(app, handleStart(app, store, Closure(app), now), kb, FALSE, now))
  /\ last' = Outcome(app.isRunning)
  /\ UNCHANGED <<now, mounted, runTime, calc>>

ClickPause ==
  /\ mounted
  /\ Becomes(Commit(app, handlePause(app, store, Closure(app), now), kb, FALSE, now))
  /\ last' = Outcome(~app.isRunning)
  /\ UNCHANGED <<now, mounted, runTime, calc>>

\* The Lap button, while the list holds fewer than cap laps.
ClickLapUpTo(cap) ==
  /\ mounted /\ Len(app.laps) < cap
  /\ Becomes(Commit(app, handleLap(app, store, Closure(app), now), kb, FALSE, now))
  /\ last' = Outcome(~app.isRunning)
  /\ UNCHANGED <<now, mounted, runTime, calc>>

ClickLap == ClickLapUpTo(MaxLaps)

ClickReset ==
  /\ mounted
  /\ Becomes(Commit(app, handleReset(app, store), kb, FALSE, now))
  /\ last' = Outcome(app.isRunning)
  /\ runTime' = IF app.isRunning THEN runTime ELSE 0
  /\ UNCHANGED <<now, mounted, calc>>

PresetChange ==
  /\ mounted
  /\ \E in \in Inputs :
       Becomes(Commit(app, handlePresetChange(app, store, in), kb, FALSE, now))
  /\ last' = Event("handled")
  /\ UNCHANGED <<now, mounted, runTime, calc>>

\* A key is pressed outside the input: Space, L or R (L while the list holds
\* fewer than cap laps).
KeyDownUpTo(key, cap) ==
  /\ mounted
  /\ key = "l" => Len(app.laps) < cap
  /\ Becomes(Commit(app, onKey(app, store, kb, key, now), kb, FALSE, now))
  /\ last' = Event("handled")
  /\ runTime' = IF key = "r" /\ ~app.isRunning THEN 0 ELSE runTime
  /\ UNCHANGED <<now, mounted, calc>>

KeyDown(key) == KeyDownUpTo(key, MaxLaps)

Keys == {" ", "l", "r"}

Next ==
  \/ Load
  \/ ClockAdvance
  \/ Tick
  \/ ClickStart
  \/ ClickPause
  \/ ClickLap
  \/ ClickReset
  \/ PresetChange
  \/ \E key \in Keys : KeyDown(key)

Spec == Init /\ [][Next]_vars

\* The same program over storage left by the older versions.
SpecLegacy == InitLegacy /\ [][Next]_vars

\* Storage the page may find that this run of the program did not write:
\* a snapshot an earlier visit wrote (two laps cut, the first with a target
\* of 0 and the second with none, then paused), snapshots with missing or
\* malformed properties, and a budget record holding a larger integer.
StoredTwoLaps ==
  [ laps |-> << [startTs |-> 0, endTs |-> 1, durationMs |-> 1, targetMinutes |-> 0],
                [startTs |-> 1, endTs |-> 2, durationMs |-> 1] >>,
    baseElapsed |-> 2, sessionStartTs |-> 0, lapAnchorTs |-> 2,
    activeStartTs |-> 2, lastPauseTs |-> 2 ]

\* baseElapsed and both targets are strings, lapAnchorTs is null, the lap has
\* no durationMs, activeStartTs and lastPauseTs are missing.
StoredMalformed ==
  [ laps |-> << [startTs |-> 0, endTs |-> 1] >>,
    baseElapsed |-> Text, sessionStartTs |-> 0, lapAnchorTs |-> Null,
    activeTargetMinutes |-> Text, currentTargetMinutes |-> Text ]

\* The lap array holds null.
StoredNullLap == [ laps |-> << JsonNull >>, baseElapsed |-> 1, sessionStartTs |-> 0 ]

StoredStores ==
  { Storage(MAX_RELOADS + 2, NoItem, NoItem, NoItem),
    Storage(Null, Json(StoredTwoLaps), NoItem, NoItem),
    Storage(Null, Json(StoredMalformed), NoItem, NoItem),
    Storage(Null, Json(StoredNullLap), NoItem, NoItem) }

\* The visit that wrote the stored timestamps is over: the page is opened
\* when the clock reads at least the latest of them.
InitStored == InitAt(StoredStores, MaxTime - 1)

SpecStored == InitStored /\ [][Next]_vars

\* The same program late in the clock's range, where the wall clock may also
\* step back (Date.now() is not monotonic).  The clock does not fall below
\* its reading when the page was opened, and it steps back only before
\* running time has passed since the last reset or load, which keeps the
\* elapsed time within the clock's range.
ClockBack ==
  /\ now > MaxTime - 1
  /\ runTime = 0
  /\ now' = now - 1
  /\ UNCHANGED <<app, store, kb, mounted, last, runTime, calc>>

InitLate == InitAt({Storage(Null, NoItem, NoItem, NoItem)}, MaxTime - 1)

NextJitter ==
  \/ Load
  \/ ClockAdvance
  \/ ClockBack
  \/ Tick
  \/ ClickStart
  \/ ClickPause
  \/ ClickLap
  \/ ClickReset
  \/ PresetChange
  \/ \E key \in Keys : KeyDown(key)

SpecJitter == InitLate /\ [][NextJitter]_vars

\* The same program late in the clock's range, where one lap more may be cut.
ClickLapMore == ClickLapUpTo(MaxLaps + 1)

KeyDownMore(key) == KeyDownUpTo(key, MaxLaps + 1)

NextLaps ==
  \/ Load
  \/ ClockAdvance
  \/ Tick
  \/ ClickStart
  \/ ClickPause
  \/ ClickLapMore
  \/ ClickReset
  \/ PresetChange
  \/ \E key \in Keys : KeyDownMore(key)

SpecLaps == InitLate /\ [][NextLaps]_vars

\* ------------------------------------------------- module-level functions
MsPerMinute == 60000

\* The three texts getPresetStatus returns, in source order: the dash of an
\* unset target, the text for "exceeded", the text for "not exceeded".
StatusUnset == "-"
StatusExceeded == "exceeded"
StatusNotExceeded == "not exceeded"

\* Mutant of getPresetStatus: a duration equal to the target counts as
\* exceeded.
getPresetStatus_strict(durationMs, targetMinutes) ==
  IF targetMinutes = Null \/ targetMinutes = Undefined \/ targetMinutes = NaN
  THEN StatusUnset
  ELSE LET targetMs == targetMinutes * MsPerMinute
       IN IF durationMs >= targetMs THEN StatusExceeded ELSE StatusNotExceeded

getPresetStatus(durationMs, targetMinutes) ==
  IF targetMinutes = Null \/ targetMinutes = Undefined \/ targetMinutes = NaN
  THEN StatusUnset
  ELSE LET targetMs == targetMinutes * MsPerMinute
       IN IF durationMs > targetMs THEN StatusExceeded ELSE StatusNotExceeded

\* A JS value used as a condition: null, undefined, NaN and 0 are falsy.
Truthy(x) == x # Null /\ x # Undefined /\ x # NaN /\ x # 0

\* msToHMS / fmtHMS: hours, minutes and seconds of a duration, each printed
\* with two digits.
fmtHMS(ms) ==
  LET totalSeconds == ms \div 1000
  IN [h |-> totalSeconds \div 3600, m |-> (totalSeconds % 3600) \div 60,
      s |-> totalSeconds % 60]

\* fmtRange: hour and minute of the day of a timestamp (in the zone UTC).
fmtRange(ts) ==
  LET minuteOfDay == (ts \div MsPerMinute) % 1440
  IN [h |-> minuteOfDay \div 60, m |-> minuteOfDay % 60]

\* Math.round(x / 60000) of a duration x >= 0
roundMinutes(x) == (2 * x + MsPerMinute) \div (2 * MsPerMinute)

\* The text buildTextSummary returns is modelled as the sequence of its
\* lines (it joins them with "\n"); a line is modelled by its parts.
Placeholder == << [kind |-> "placeholder"] >>

lapLine(idx, lap) ==
  [kind |-> "lap", no |-> idx, from |-> fmtRange(lap.startTs),
   to |-> fmtRange(lap.endTs), mins |-> roundMinutes(lap.durationMs)]

\* Mutant of buildTextSummary: the lap lines are numbered from 0.
buildTextSummary_zeroBased(lapRows, rangeStart, rangeEnd, rangeDur) ==
  IF Len(lapRows) = 0 THEN Placeholder
  ELSE LET lines == [i \in 1..Len(lapRows) |-> lapLine(i - 1, lapRows[i])]
       IN IF Truthy(rangeStart) /\ Truthy(rangeEnd)
          THEN lines \o << [kind |-> "blank"],
                            [kind |-> "total", from |-> fmtRange(rangeStart),
                             to |-> fmtRange(rangeEnd),
                             dur |-> fmtHMS(IF Truthy(rangeDur) THEN rangeDur ELSE 0)] >>
          ELSE lines

buildTextSummary(lapRows, rangeStart, rangeEnd, rangeDur) ==
  IF Len(lapRows) = 0 THEN Placeholder
  ELSE LET lines == [i \in 1..Len(lapRows) |-> lapLine(i, lapRows[i])]
       IN IF Truthy(rangeStart) /\ Truthy(rangeEnd)
          THEN lines \o << [kind |-> "blank"],
                            [kind |-> "total", from |-> fmtRange(rangeStart),
                             to |-> fmtRange(rangeEnd),
                             dur |-> fmtHMS(IF Truthy(rangeDur) THEN rangeDur ELSE 0)] >>
          ELSE lines

\* useMemo summaryText: the completed rows and the range are handed to
\* buildTextSummary; the activeRow of the render is not.
summaryText(completedRows, rangeStart, rangeEnd, displayRangeDur) ==
  buildTextSummary(completedRows, rangeStart, rangeEnd, displayRangeDur)

\* ------------------------------------- calls of the module-level functions
\* Durations around every whole minute up to MaxMinutes.
Durations ==
  { m * MsPerMinute + d : m \in 0..MaxMinutes, d \in {0 - 1, 0, 1} } \cap Nat

Targets == {Null, Undefined, NaN} \cup 0..MaxMinutes

\* What the target input can hand to computePresetFromInput: a blank or
\* non-blank raw text, with valueAsNumber missing / NaN or a number given in
\* tenths (negative, fractional and whole numbers).
NumberInputs ==
  { [blank |-> b, isNaN |-> TRUE, tenths |-> 0] : b \in BOOLEAN }
  \cup { [blank |-> b, isNaN |-> FALSE, tenths |-> n] :
           b \in BOOLEAN, n \in (0 - 15)..(10 * MaxMinutes + 9) }

\* Timestamps (ms since the epoch, so above 0) and laps for the summary.
Stamps == { MsPerMinute, 2 * MsPerMinute + 30000 }

SummaryLaps ==
  { [startTs |-> MsPerMinute, endTs |-> 2 * MsPerMinute + 30000,
     durationMs |-> d, targetMinutes |-> Undefined] : d \in {29999, 30000, 90000} }

RECURSIVE SeqsUpTo(_, _)
SeqsUpTo(S, n) ==
  IF n = 0 THEN { <<>> }
  ELSE LET shorter == SeqsUpTo(S, n - 1)
       IN shorter \cup { Append(q, x) : q \in shorter, x \in S }

CallGetPresetStatus ==
  /\ \E d \in Durations, tm \in Targets :
       calc' = [fn |-> "getPresetStatus", durationMs |-> d, targetMinutes |-> tm,
                out |-> getPresetStatus(d, tm)]
  /\ UNCHANGED <<app, store, kb, now, mounted, last, runTime>>

CallComputePreset ==
  /\ \E in \in NumberInputs :
       calc' = [fn |-> "computePresetFromInput", in |-> in,
                out |-> computePresetFromInput(in)]
  /\ UNCHANGED <<app, store, kb, now, mounted, last, runTime>>

\* One render's summaryText: rows, range and the activeRow in scope.
CallSummary ==
  /\ \E rows \in SeqsUpTo(SummaryLaps, MaxRows), rs \in {Null} \cup Stamps,
        re \in {Null} \cup Stamps, dur \in {0, 90000}, active \in BOOLEAN :
       calc' = [fn |-> "buildTextSummary", lapRows |-> rows, rangeStart |-> rs,
                rangeEnd |-> re, rangeDuration |-> dur, hasActive |-> active,
                out |-> summaryText(rows, rs, re, dur)]
  /\ UNCHANGED <<app, store, kb, now, mounted, last, runTime>>

InitPure == InitOver({Storage(Null, NoItem, NoItem, NoItem)})

NextPure == CallGetPresetStatus \/ CallComputePreset \/ CallSummary

SpecPure == InitPure /\ [][NextPure]_vars

\* ------------------------------------------------------------------ claims
\* The duration of the open segment as displayed; 0 when no segment is open.
ActiveMs == IF app.activeStartTs = Null THEN 0 ELSE activeDurationMs(app)

\* C1: in every reachable state the durations of the completed laps plus the
\* duration of the active segment add up to the displayed elapsed time.
C1_LapDurationInvariant ==
  lapsAccumulatedMs(app.laps) + ActiveMs = app.elapsed

\* C2: while paused the displayed elapsed time does not change as the clock
\* advances, a resume continues from the value shown at the pause, and
\* whenever the timer is paused that value is the sum of the lengths of the
\* running intervals since the last reset or page load.
C2_PauseExclusion ==
  [][/\ (ClockAdvance /\ mounted /\ ~app.isRunning) => app'.elapsed = app.elapsed
     /\ ((ClickStart \/ KeyDown(" ")) /\ ~app.isRunning) => app'.elapsed = app.elapsed
     /\ (mounted' /\ ~app'.isRunning) => app'.elapsed = runTime']_vars

\* A step of any event but a page load and a reset.
OtherEvent ==
  \/ ClockAdvance \/ Tick \/ ClickStart \/ ClickPause \/ ClickLap
  \/ PresetChange \/ KeyDown(" ") \/ KeyDown("l")

\* C3: no event other than a reset or a page load lowers the displayed
\* elapsed time.
C3_ElapsedMonotonic ==
  [][app'.elapsed >= app.elapsed \/ ~OtherEvent]_vars

\* A step that cuts a lap: the cut handler is called while running.
Cut == app.isRunning /\ (ClickLap \/ KeyDown("l"))

\* The lap a cut step appends.
NewLap == app'.laps[Len(app'.laps)]

\* C4: a cut records a lap whose durationMs is the running time since the
\* previous cut (since the session start for lap 1), i.e. the running time so
\* far less the durations of the laps cut before.
C4_LapExcludesPause ==
  [][Cut => NewLap.durationMs = runTime - lapsAccumulatedMs(app.laps)]_vars

\* C5: a change of the pending target leaves the locked target of the open
\* segment and every completed lap as they are; the lap recorded by the next
\* cut carries the target locked when its segment opened, and the segment
\* that cut opens is locked to the pending target of that moment.
C5_TargetLock ==
  [][/\ PresetChange => /\ app'.activeTargetMinutes = app.activeTargetMinutes
                         /\ app'.laps = app.laps
     /\ Cut => /\ NewLap.targetMinutes = app.activeTargetMinutes
                /\ app'.activeTargetMinutes = app.currentTargetMinutes]_vars

\* A page load after the first one.
Reload == mounted /\ last'.ev = "load" /\ Load

\* C6: a reload that finds a budget of 2 or 1 restores the stored snapshot
\* and leaves a budget one smaller, a reload that finds 0 restores nothing and
\* leaves no snapshot, and nothing but a reload or a reset changes the stored
\* budget: from a full budget the first two reloads restore and every later
\* one does not.
C6_ReloadBudget ==
  [][/\ Reload =>
          LET left == parseReloadsLeft(store.left)
          IN /\ left > 0 => /\ store.state.kind = "json"
                             /\ stringify(Payload(app')) = store.state.v
                             /\ store'.left = left - 1
             /\ left = 0 => /\ Payload(app') = Payload(FreshApp)
                             /\ store'.state = NoItem
                             /\ store'.left = 0
     /\ store'.left = store.left \/ ~OtherEvent]_vars

\* A third or later reload has happened: it found the budget at 0.
C6_Witness ==
  /\ last.ev = "load" /\ last.left = 0
  /\ store.left = 0 /\ store.state = NoItem /\ app.laps = <<>>

\* C7: a page load that finds a stored budget above 0 leaves it one smaller,
\* whatever the snapshot item holds; a load that finds 0 leaves 0.
C7_BudgetDecrement ==
  [][Load => /\ (IsNumber(store.left) /\ store.left > 0)
                  => store'.left = store.left - 1
             /\ store.left = 0 => store'.left = 0]_vars

\* A handler called in a state its guard rejects.
IllegalCall ==
  \/ app.isRunning /\ ClickStart
  \/ ~app.isRunning /\ ClickPause
  \/ (~app.isRunning \/ app.sessionStartTs = Null) /\ ClickLap
  \/ app.isRunning /\ ClickReset

\* C8: start while running, pause while not running, a cut while not running
\* and reset while running change no cell, no displayed value, no storage
\* item and not the keydown listener.
C8_IllegalNoOp ==
  [][(app' = app /\ store' = store /\ kb' = kb) \/ ~IllegalCall]_vars

\* A rejected call has just been made on a running timer with a stored
\* snapshot.
C8_Witness ==
  last.ev = "ignored" /\ app.isRunning /\ store.state.kind = "json"

\* C9: a reset made while not running leaves no laps, baseElapsed 0, no
\* anchors, no locked target, displayed elapsed and range duration 0, the
\* budget at MAX_RELOADS in the cell and in storage, and no stored snapshot.
C9_ResetEffect ==
  [][(~app.isRunning /\ (ClickReset \/ KeyDown("r"))) =>
       /\ app'.laps = <<>> /\ app'.baseElapsed = 0
       /\ app'.sessionStartTs = Null /\ app'.activeStartTs = Null
       /\ app'.lastPauseTs = Null /\ app'.activeTargetMinutes = Undefined
       /\ app'.elapsed = 0 /\ app'.displayRangeDuration = 0
       /\ app'.reloadsLeft = MAX_RELOADS /\ store'.left = MAX_RELOADS
       /\ store'.state = NoItem]_vars

\* C10: a step that changes the lap list, baseElapsed or the pending target
\* leaves in storage exactly the snapshot of the resulting state when
\* reloadsLeft is above 0, and no snapshot when reloadsLeft is 0.
C10_PersistGating ==
  [][(\/ app'.laps # app.laps
      \/ app'.baseElapsed # app.baseElapsed
      \/ app'.currentTargetMinutes # app.currentTargetMinutes)
     => /\ app'.reloadsLeft > 0 => store'.state = Json(stringify(Payload(app')))
        /\ app'.reloadsLeft = 0 => store'.state = NoItem]_vars

\* With the budget used up a lap has been cut and nothing is stored.
C10_Witness ==
  /\ app.reloadsLeft = 0 /\ Len(app.laps) > 0 /\ app.isRunning
  /\ store.state = NoItem

\* C11: a reload made while the budget in memory is above 0 (the lap list is
\* then persisted, and the load is eligible) yields the lap list held before
\* the reload: the same number of laps in the same order with the same
\* startTs, endTs, durationMs and targetMinutes, a lap without a target
\* staying without one.
C11_RoundTrip ==
  [][(Reload /\ app.reloadsLeft > 0) => app'.laps = app.laps]_vars

\* Two laps, the first with the target 0 and the second with none, have come
\* back from the second of two loads.
C11_Witness ==
  /\ last.ev = "load" /\ mounted /\ app.reloadsLeft = 0 /\ Len(app.laps) = 2
  /\ app.laps[1].targetMinutes = 0 /\ app.laps[2].targetMinutes = Undefined
  /\ app.laps[1].endTs = 1 /\ app.laps[2].startTs = 1

\* C12: once the page has loaded, reloadsLeft is an integer of 0..MAX_RELOADS
\* both in the state cell and in the stored budget record.
C12_ReloadsLeftRange ==
  mounted => /\ app.reloadsLeft \in 0..MAX_RELOADS
             /\ store.left \in 0..MAX_RELOADS

\* A lap entry of a stored snapshot that is an object with numeric startTs,
\* endTs and durationMs.
WellFormedLap(j) ==
  /\ j # JsonNull
  /\ IsNumber(Prop(j, "startTs")) /\ IsNumber(Prop(j, "endTs"))
  /\ IsNumber(Prop(j, "durationMs"))

\* The value a load should leave for the numeric property f of the snapshot
\* p: the stored value when it is a number, otherwise the default d.
Tolerant(p, f, d) == IF IsNumber(Prop(p, f)) THEN p[f] ELSE d

\* C13: a load with budget that finds a snapshot text which parses does not
\* end with the component unmounted, restores every property that is valid
\* (a number where a number is expected, a lap with numeric startTs, endTs
\* and durationMs) and leaves every other one at its default.
C13_TolerantRestore ==
  [][(/\ last'.ev \in {"load", "crash"}
      /\ store.state.kind = "json" /\ parseReloadsLeft(store.left) > 0
      /\ Load)
     => LET p == store.state.v
        IN /\ mounted'
           /\ app'.baseElapsed = Tolerant(p, "baseElapsed", 0)
           /\ app'.sessionStartTs = Tolerant(p, "sessionStartTs", Null)
           /\ app'.lapAnchorTs = Tolerant(p, "lapAnchorTs", Null)
           /\ app'.activeStartTs = Tolerant(p, "activeStartTs", Null)
           /\ app'.lastPauseTs = Tolerant(p, "lastPauseTs", Null)
           /\ app'.activeTargetMinutes = Tolerant(p, "activeTargetMinutes", Undefined)
           /\ app'.currentTargetMinutes = Tolerant(p, "currentTargetMinutes", Undefined)
           /\ app'.laps = IF "laps" \in DOMAIN p
                          THEN parsedLaps(SelectSeq(p.laps, WellFormedLap))
                          ELSE <<>>]_vars

\* C14: for a duration >= 0 the status is "exceeded" exactly when a target is
\* recorded and the duration is above targetMinutes * 60000, "not exceeded"
\* exactly when a target is recorded and the duration is at most that (a
\* target of 0 is a target, equality is not exceeded), and the dash exactly
\* when no target is recorded.
C14_StatusClassification ==
  calc.fn = "getPresetStatus" =>
    LET hasTarget == IsNumber(calc.targetMinutes)
        limit == calc.targetMinutes * MsPerMinute
    IN /\ (calc.out = StatusExceeded) <=> (hasTarget /\ calc.durationMs > limit)
       /\ (calc.out = StatusNotExceeded) <=> (hasTarget /\ calc.durationMs <= limit)
       /\ (calc.out = StatusUnset) <=> ~hasTarget

\* A duration equal to a target of one minute has been classified.
C14_Witness ==
  /\ calc.fn = "getPresetStatus" /\ calc.targetMinutes = 1
  /\ calc.durationMs = MsPerMinute /\ calc.out = StatusNotExceeded

\* C15: a blank input and an input that holds no number give the unset
\* target, which is not 0; an input holding the number n gives the natural
\* number max(0, floor(n)); the input 0 gives the target 0.
C15_TargetInputParsing ==
  calc.fn = "computePresetFromInput" =>
    /\ (calc.in.blank \/ calc.in.isNaN) => (calc.out = Undefined /\ calc.out # 0)
    /\ (~calc.in.blank /\ ~calc.in.isNaN) =>
         /\ calc.out \in Nat
         /\ (calc.in.tenths < 10) => calc.out = 0
         /\ (calc.in.tenths >= 10) =>
              (10 * calc.out <= calc.in.tenths /\ calc.in.tenths < 10 * calc.out + 10)

\* The input 0 has been parsed to the target 0.
C15_Witness ==
  /\ calc.fn = "computePresetFromInput" /\ ~calc.in.blank /\ ~calc.in.isNaN
  /\ calc.in.tenths = 0 /\ calc.out = 0

\* C17: with no completed lap the export is the placeholder, whether or not
\* a segment is active; with N >= 1 completed laps its first N lines are the
\* laps in list order numbered 1..N, followed by a blank line and a total
\* line when the range has a start and an end, and by nothing otherwise.
C17_ExportStructure ==
  calc.fn = "buildTextSummary" =>
    LET n == Len(calc.lapRows)
        range == calc.rangeStart # Null /\ calc.rangeEnd # Null
    IN /\ (n = 0) => calc.out = Placeholder
       /\ (n >= 1) =>
            /\ Len(calc.out) = IF range THEN n + 2 ELSE n
            /\ \A i \in 1..n :
                 /\ calc.out[i].kind = "lap" /\ calc.out[i].no = i
                 /\ calc.out[i].from = fmtRange(calc.lapRows[i].startTs)
                 /\ calc.out[i].to = fmtRange(calc.lapRows[i].endTs)
                 /\ calc.out[i].mins = roundMinutes(calc.lapRows[i].durationMs)
            /\ range => /\ calc.out[n + 1].kind = "blank"
                        /\ calc.out[n + 2].kind = "total"

\* Two completed laps and a range have been exported while a segment was
\* active: four lines.
C17_Witness ==
  /\ calc.fn = "buildTextSummary" /\ calc.hasActive /\ Len(calc.lapRows) = 2
  /\ calc.rangeStart # Null /\ calc.rangeEnd # Null /\ Len(calc.out) = 4
  /\ calc.lapRows[1] # calc.lapRows[2]

\* The later of two timestamps of which either may be absent.
Later(a, b) == IF a = Null THEN b ELSE IF b = Null THEN a ELSE Max(a, b)

\* The endTs of the latest completed lap of the cells s; Null without laps.
LatestLapEnd(s) ==
  IF Len(s.laps) = 0 THEN Null
  ELSE SeqMax([i \in 1..Len(s.laps) |-> s.laps[i].endTs])

\* The range the cells s should show when live is the current time (running)
\* or the last pause timestamp (paused): it starts at the session start and
\* ends at the later of the latest lap end and live (at the start itself when
\* neither exists), and its duration is max(0, end - start).
RangeShown(s, live) ==
  LET end == Later(LatestLapEnd(s), live)
  IN /\ s.rangeEnd = IF end = Null THEN s.sessionStartTs ELSE end
     /\ s.displayRangeDuration = Max(0, s.rangeEnd - s.sessionStartTs)

PauseStep == app.isRunning /\ (ClickPause \/ KeyDown(" "))

\* C18: a pause made while running leaves baseElapsed at the larger of
\* baseElapsed + (now - runStartedAt), taken with the values held before the
\* pause, and the elapsed time last displayed; afterwards the timer is not
\* running, runStartedAt is absent and lastPauseTs is now.
C18_PauseAccounting ==
  [][PauseStep =>
       /\ app'.baseElapsed =
            Max(app.baseElapsed + (now - app.startedAt), app.elapsed)
       /\ app'.baseElapsed >= app.baseElapsed + (now - app.startedAt)
       /\ ~app'.isRunning /\ app'.startedAt = Null /\ app'.lastPauseTs = now]_vars

\* A step that starts or resumes: the start handler is called while not
\* running, by the button or by the Space key.
StartStep == ~app.isRunning /\ (ClickStart \/ KeyDown(" "))

\* C19: a start without a session sets the session start and the active
\* segment start to now and locks the pending target of that moment; a start
\* with a session leaves the session start, the active segment start,
\* lastPauseTs, the locked target and the lap list as they are.
C19_Start ==
  [][StartStep =>
       /\ app'.isRunning
       /\ app.sessionStartTs = Null =>
            /\ app'.sessionStartTs = now /\ app'.activeStartTs = now
            /\ app'.activeTargetMinutes = app.currentTargetMinutes
       /\ app.sessionStartTs # Null =>
            /\ app'.sessionStartTs = app.sessionStartTs
            /\ app'.activeStartTs = app.activeStartTs
            /\ app'.lastPauseTs = app.lastPauseTs
            /\ app'.activeTargetMinutes = app.activeTargetMinutes
            /\ app'.laps = app.laps]_vars

\* C20: a cut made while running appends exactly one lap, which starts at
\* the active segment start held before the cut, ends now and carries the
\* target locked before the cut; afterwards the active segment starts at
\* that lap's endTs and the locked target is the pending target of the moment
\* of the cut.
C20_CutAnchoring ==
  [][Cut =>
       /\ app'.laps = Append(app.laps, NewLap)
       /\ NewLap.startTs = app.activeStartTs /\ NewLap.endTs = now
       /\ NewLap.targetMinutes = app.activeTargetMinutes
       /\ app'.activeStartTs = NewLap.endTs
       /\ app'.activeTargetMinutes = app.currentTargetMinutes]_vars

\* C21: every completed lap ends no earlier than it starts and has a
\* duration of at least 0, also when the clock has stepped back between the
\* opening of a segment and its cut.
C21_LapWellFormed ==
  \A i \in 1..Len(app.laps) :
    app.laps[i].endTs >= app.laps[i].startTs /\ app.laps[i].durationMs >= 0

\* C22: a step of a page session leaves the lap list as it is, appends one
\* lap at its end (only while running: a cut), or empties it (only while not
\* running: a reset); the laps already in the list keep their place and their
\* fields.
C22_AppendOnly ==
  [][(mounted /\ last'.ev # "load") =>
       \/ app'.laps = app.laps
       \/ /\ app.isRunning
          /\ Len(app'.laps) = Len(app.laps) + 1
          /\ SubSeq(app'.laps, 1, Len(app.laps)) = app.laps
       \/ ~app.isRunning /\ app'.laps = <<>>]_vars

\* A second lap has been cut after the first: two different laps in order.
C22_Witness ==
  /\ mounted /\ last.ev = "handled" /\ Len(app.laps) = 2
  /\ app.laps[1].endTs = app.laps[2].startTs
  /\ app.laps[1] # app.laps[2]

\* C23: a redraw tick happens only while the timer is running and leaves the
\* lap list, baseElapsed, isRunning, runStartedAt, the anchors, the locked
\* and the pending target, reloadsLeft, the stored snapshot and the stored
\* budget as they are.
C23_TickFrame ==
  [][(/\ app.isRunning /\ app'.isRunning
      /\ app'.laps = app.laps /\ app'.baseElapsed = app.baseElapsed
      /\ app'.startedAt = app.startedAt
      /\ app'.sessionStartTs = app.sessionStartTs
      /\ app'.lapAnchorTs = app.lapAnchorTs
      /\ app'.activeStartTs = app.activeStartTs
      /\ app'.lastPauseTs = app.lastPauseTs
      /\ app'.activeTargetMinutes = app.activeTargetMinutes
      /\ app'.currentTargetMinutes = app.currentTargetMinutes
      /\ app'.reloadsLeft = app.reloadsLeft
      /\ store' = store)
     \/ ~Tick]_vars

\* A redraw tick has recomputed the derived values of a running timer: the
\* elapsed time shown is above baseElapsed and the stored snapshot is not
\* that of the cells.
C23_Witness ==
  /\ mounted /\ app.isRunning /\ last.ev = "handled"
  /\ app.elapsed > app.baseElapsed /\ app.rangeEnd = now
  /\ store.state.kind = "json"
  /\ store.state # Json(stringify(Payload(app)))

\* What the button does for the operation a key stands for: Space is Start
\* or Pause, L is Lap.
ButtonCall(key) ==
  IF key = " "
  THEN (IF app.isRunning THEN handlePause(app, store, Closure(app), now)
        ELSE handleStart(app, store, Closure(app), now))
  ELSE handleLap(app, store, Closure(app), now)

\* C24: in every state of a loaded page, Space and L leave the cells (lap
\* list with its durations, locked target, baseElapsed and the others) and
\* the storage as the button for the same operation would at that instant.
C24_ShortcutEquivalence ==
  mounted => \A key \in {" ", "l"} :
               onKey(app, store, kb, key, now) = ButtonCall(key)

\* C25: whenever the page has loaded, the timer is not running and
\* reloadsLeft is above 0, the stored snapshot is the snapshot of the current
\* state: laps, baseElapsed, session start, lap anchor, active segment start,
\* lastPauseTs, locked and pending target.
C25_SnapshotFresh ==
  (mounted /\ ~app.isRunning /\ app.reloadsLeft > 0)
    => store.state = Json(stringify(Payload(app)))

\* C26: after a page load the timer is not running, runStartedAt is absent
\* and the elapsed time shown is baseElapsed; a load that restores a snapshot
\* takes baseElapsed from it, and a reload made with budget shows the
\* baseElapsed held before the reload, whatever running time had been shown.
C26_LoadNeverResumes ==
  [][(last'.ev = "load" /\ Load) =>
       /\ ~app'.isRunning /\ app'.startedAt = Null
       /\ app'.elapsed = app'.baseElapsed
       /\ (parseReloadsLeft(store.left) > 0 /\ store.state.kind = "json")
            => app'.baseElapsed = Prop(store.state.v, "baseElapsed")
       /\ (mounted /\ app.reloadsLeft > 0) => app'.elapsed = app.baseElapsed
       /\ parseReloadsLeft(store.left) = 0 => app'.elapsed = 0]_vars

\* A reload has restored a timer that had shown running time: the lap cut
\* before the reload is longer than the elapsed time restored.
C26_Witness ==
  /\ mounted /\ last.ev = "load" /\ ~app.isRunning /\ app.startedAt = Null
  /\ Len(app.laps) = 1 /\ app.laps[1].durationMs > app.elapsed
  /\ app.elapsed = app.baseElapsed
====
